---- MODULE Spec2Model ----
(***************************************************************************)
(* Verification model of the portfolio-hero scenes: the React state of     *)
(* App (accent, triggerImpulse), the useGyroscope hook, the Connector      *)
(* bodies with their per-frame callbacks and trigger effect, and the       *)
(* arithmetic of the per-body force field.                                 *)
(*                                                                         *)
(* Five specifications share the variables:                                *)
(*   Spec       the scene lifecycle (mount, effects, clicks, orientation   *)
(*              events, rendered frames, teardown); it counts what each    *)
(*              callback applies to each body.                             *)
(*   SpecForce  the values the callbacks compute: the inputs (t, p, phi,   *)
(*              props) are drawn in InitForce and the callbacks are        *)
(*              applied to them.                                           *)
(*   SpecSpawn  scene population: the positions the creating component     *)
(*              hands to its bodies on the first and on later renders.     *)
(*   SpecCursor the frame callback of the FloatingObjects that pushes the  *)
(*              bodies away from the cursor.                               *)
(*   SpecTypes  the type list of FloatingObjects, its shuffle and the      *)
(*              spheres created from it.                                   *)
(*                                                                         *)
(* Numbers.  Lengths, gains and trigonometric values are fixed-point       *)
(* "milli" integers (0.4 is 400); a product of two of them is "micro".     *)
(* Angles are counted in steps of pi/10, the clock in ticks of pi/2        *)
(* seconds, so that frequency * t is a whole number of angle steps for     *)
(* the frequencies 0.6, 0.8 and 1.0 the code uses.                         *)
(***************************************************************************)
EXTENDS Integers, Sequences, FiniteSets, TLC

----------------------------------------------------------------------------
(* Bounds of the model *)

NumBodies == 2
MaxClicks == 4
MaxFrames == 3
MaxImpulses == 3
MaxTick == 2
MaxRenders == 2
MaxCount == 6

\* The tracked Connector slots: indices into the list shuffle() returns.
\* Slot 6 is the first accent-coloured entry, the slots below it are not.
Bodies == (7 - NumBodies)..6

----------------------------------------------------------------------------
(* The scene variants of the repository *)

LifecycleVariants == {"gyro", "optimized", "plain", "frameskip", "shared"}

HasGyroscope(v) == v = "gyro"

KeyedByAccent(v) == v = "optimized"

VecMemoized(v) == v = "optimized"

EffectDepsHaveVec(v) == v # "shared"

RefBound(v) == v \notin {"shared", "debug"}

FrameSkipping(v) == v = "frameskip"

SharedMaterial(v) == v = "shared"

ColorProp(v) == v \in {"gyro", "frameskip"}

MaterialRefLazy(v) == v = "optimized"

----------------------------------------------------------------------------
(* App: accents, shuffle *)

accents == <<"#4060ff", "#8FFE09", "#ED141F", "#fff500">>

\* Mutant: the first accent entry keeps the colour of accent 0
shuffle_FirstAccentFixed(accent) ==
  << [color |-> "#444", roughness |-> 75, metalness |-> 0, accent |-> FALSE],
     [color |-> "#444", roughness |-> 10, metalness |-> 80, accent |-> FALSE],
     [color |-> "#444", roughness |-> 75, metalness |-> 20, accent |-> FALSE],
     [color |-> "white", roughness |-> 75, metalness |-> 0, accent |-> FALSE],
     [color |-> "white", roughness |-> 75, metalness |-> 0, accent |-> FALSE],
     [color |-> "white", roughness |-> 10, metalness |-> 20, accent |-> FALSE],
     [color |-> accents[1], roughness |-> 75, metalness |-> 20, accent |-> TRUE],
     [color |-> accents[accent + 1], roughness |-> 10, metalness |-> 50, accent |-> TRUE],
     [color |-> accents[accent + 1], roughness |-> 10, metalness |-> 20, accent |-> TRUE] >>

\* roughness and metalness in hundredths
shuffle(accent) ==
  << [color |-> "#444", roughness |-> 75, metalness |-> 0, accent |-> FALSE],
     [color |-> "#444", roughness |-> 10, metalness |-> 80, accent |-> FALSE],
     [color |-> "#444", roughness |-> 75, metalness |-> 20, accent |-> FALSE],
     [color |-> "white", roughness |-> 75, metalness |-> 0, accent |-> FALSE],
     [color |-> "white", roughness |-> 75, metalness |-> 0, accent |-> FALSE],
     [color |-> "white", roughness |-> 10, metalness |-> 20, accent |-> FALSE],
     [color |-> accents[accent + 1], roughness |-> 75, metalness |-> 20, accent |-> TRUE],
     [color |-> accents[accent + 1], roughness |-> 10, metalness |-> 50, accent |-> TRUE],
     [color |-> accents[accent + 1], roughness |-> 10, metalness |-> 20, accent |-> TRUE] >>

\* Mutant: the reducer steps over one accent
click_SkipOne(state) == (state + 2) % Len(accents)

\* The reducer of useReducer: ++state % accents.length
click(state) == (state + 1) % Len(accents)

\* The color prop Connector slot b hands to its Model under accent a
ConfiguredColor(a, b) == shuffle(a)[b + 1].color

----------------------------------------------------------------------------
(* Sampled inputs *)

\* Phase offsets, in angle steps of pi/10 (Math.random() * Math.PI * 2)
PhaseSamples == {<<0, 0, 0>>, <<5, 13, 18>>}

\* A field of a DeviceOrientationEvent: a number of degrees, or null (a
\* missing field, undefined, takes the same branch of ??)
Num(n) == [null |-> FALSE, v |-> n]
Null == [null |-> TRUE, v |-> 0]
EventTilts == {Num(-90), Num(15), Null}

Platforms == {"none", "ios", "plain"}

----------------------------------------------------------------------------
VARIABLES
  variant,         \* which scene of the repository runs
  scene,           \* "mounted" | "unmounted"
  accent,          \* App: useReducer state
  triggerImpulse,  \* App: useState counter
  platform,        \* the browser: "none" has no DeviceOrientationEvent,
                   \* "ios" has DeviceOrientationEvent.requestPermission
  orientation,     \* useGyroscope state
  permission,      \* useGyroscope state
  isSupported,     \* useGyroscope state
  listeners,       \* 'deviceorientation' listeners registered on window
  effect,          \* useGyroscope's effect: [dep, cleanup, runs]
  body,            \* per Connector slot: the mounted instance
  matColor,        \* per Connector slot: the colour its mesh displays
  pointer,         \* the Pointer component: [frameCount, moved]
  frames,          \* rendered frames so far
  probe,           \* SpecForce: the inputs of one evaluation
  result           \* SpecForce: what the evaluation applied

hookVars == <<platform, orientation, permission, isSupported, listeners, effect>>
vars == <<variant, scene, accent, triggerImpulse, platform, orientation,
          permission, isSupported, listeners, effect, body, matColor, pointer,
          frames, probe, result>>

NoProbe == [kind |-> "none"]
NoResult == [kind |-> "none"]

----------------------------------------------------------------------------
(* Connector: mount, render, trigger effect *)

\* A Connector instance right after its mount: the memoized offset is drawn,
\* the RigidBody ref is attached when the JSX passes ref={api}.
NewInstance(v, gen, offset, impulses) ==
  [gen |-> gen, api |-> RefBound(v), offset |-> offset, impulses |-> impulses,
   frameCount |-> 0, applied |-> 0, materialRef |-> FALSE]

\* Whether React re-runs the trigger effect of an instance that stays mounted:
\* a dependency of [triggerImpulse, vec] changed.  The default parameter
\* vec = new THREE.Vector3() is a new object on every render.
TriggerDepsChanged(v, prevTrigger, newTrigger) ==
  \/ prevTrigger # newTrigger
  \/ EffectDepsHaveVec(v) /\ ~VecMemoized(v)

\* The body of the trigger effect: how many impulses it applies
TriggerEffect(api, trigger) == IF api /\ trigger > 0 THEN 1 ELSE 0

\* One render of App with its Connectors, the commit and the passive effects.
\* draws: the offsets Math.random() would give to instances mounted now.
RenderConnector(v, b, inst, prevAccent, newAccent, prevTrigger, newTrigger, draw) ==
  IF KeyedByAccent(v) /\ prevAccent # newAccent
  THEN \* the key changed: the old instance unmounts, a new one mounts
       LET fresh == NewInstance(v, inst.gen + 1, draw, inst.impulses)
       IN [fresh EXCEPT !.impulses = @ + TriggerEffect(fresh.api, newTrigger)]
  ELSE [inst EXCEPT
          !.impulses = @ + (IF TriggerDepsChanged(v, prevTrigger, newTrigger)
                            THEN TriggerEffect(inst.api, newTrigger) ELSE 0),
          \* let frameCount = 0 in the component body: a new closure
          !.frameCount = 0]

Render(v, prevAccent, newAccent, prevTrigger, newTrigger, draws) ==
  [b \in Bodies |->
     RenderConnector(v, b, body[b], prevAccent, newAccent, prevTrigger,
                     newTrigger, draws[b])]

\* The Pointer right after its mount
NewPointer == [frameCount |-> 0, moved |-> FALSE]

\* A render of Pointer: let frameCount = 0 in the component body, and
\* useFrame calls the callback of the latest render
RenderPointer(p) == [p EXCEPT !.frameCount = 0]

\* The colour each mesh displays after the commit of a render
RenderColors(v, prevAccent, newAccent) ==
  [b \in Bodies |->
     IF KeyedByAccent(v) /\ prevAccent # newAccent THEN "white"
     ELSE IF ColorProp(v) THEN ConfiguredColor(newAccent, b)
     ELSE matColor[b]]

----------------------------------------------------------------------------
(* Initial state: the scene is mounted and committed, no passive effect of *)
(* useGyroscope has run yet.                                               *)

InitialColor(v, b) ==
  IF SharedMaterial(v) THEN "gltf"
  ELSE IF ColorProp(v) THEN ConfiguredColor(0, b)
  ELSE "white"

InitHook ==
  /\ platform \in (IF HasGyroscope(variant) THEN Platforms ELSE {"none"})
  /\ orientation = [beta |-> 0, gamma |-> 0, alpha |-> 0]
  /\ permission = "unknown"
  /\ isSupported = FALSE
  /\ listeners = 0
  /\ effect = [dep |-> "none", cleanup |-> FALSE, runs |-> 0]

Init ==
  /\ variant \in LifecycleVariants
  /\ scene = "mounted"
  /\ accent = 0
  /\ triggerImpulse = 0
  /\ InitHook
  /\ \E offsets \in [Bodies -> PhaseSamples] :
       body = [b \in Bodies |-> NewInstance(variant, 1, offsets[b], 0)]
  /\ matColor = [b \in Bodies |-> InitialColor(variant, b)]
  /\ pointer = NewPointer
  /\ frames = 0
  /\ probe = NoProbe
  /\ result = NoResult

----------------------------------------------------------------------------
(* useGyroscope *)

\* Mutant: the dependency array left out, the effect runs after every render
EffectPending_NoDeps == HasGyroscope(variant)

\* The effect has to run: first commit, or its dependency [permission] changed
EffectPending == HasGyroscope(variant) /\ effect.dep # permission

\* Mutant: the branch for requestPermission missing, every browser with the
\* API is granted
PermissionSet_NoRequestBranch(hasApi, needsRequest) ==
  IF hasApi THEN "granted" ELSE "denied"

\* The value the effect hands to setPermission: 'granted' when
\* DeviceOrientationEvent exists and has no requestPermission function
PermissionSet(hasApi, needsRequest) ==
  IF hasApi /\ ~needsRequest THEN "granted" ELSE "denied"

\* The effect of useGyroscope (one run), with the cleanup of the previous run
\* and the render its setState calls cause.
GyroEffect ==
  /\ scene = "mounted"
  /\ EffectPending
  /\ LET closed == permission   \* the permission this render closed over
         afterCleanup == listeners - (IF effect.cleanup THEN 1 ELSE 0)
         hasApi == platform # "none"
         needsRequest == platform = "ios"
         \* startListening() called at line 21, its return value dropped
         afterFirst == afterCleanup + (IF hasApi /\ ~needsRequest THEN 1 ELSE 0)
         listens == closed = "granted"
     IN /\ isSupported' = hasApi
        /\ permission' = PermissionSet(hasApi, needsRequest)
        /\ listeners' = afterFirst + (IF listens THEN 1 ELSE 0)
        /\ effect' = [dep |-> closed, cleanup |-> listens, runs |-> effect.runs + 1]
        /\ IF isSupported' # isSupported \/ permission' # permission
           THEN /\ body' = Render(variant, accent, accent, triggerImpulse,
                                  triggerImpulse, [b \in Bodies |-> body[b].offset])
                /\ matColor' = RenderColors(variant, accent, accent)
                /\ pointer' = RenderPointer(pointer)
           ELSE UNCHANGED <<body, matColor, pointer>>
  /\ UNCHANGED <<variant, scene, accent, triggerImpulse, platform, orientation,
                 frames, probe, result>>

\* Mutant: the field stored as it came; arithmetic on a missing (undefined)
\* value gives NaN
Coalesce_Raw(x) == IF x.null THEN 2 ^ 30 ELSE x.v

\* event.beta ?? 0
Coalesce(x) == IF x.null THEN 0 ELSE x.v

\* A deviceorientation event: every registered listener calls setOrientation
\* with a new object, React batches them into one render.
handleOrientation ==
  /\ scene = "mounted"
  /\ HasGyroscope(variant)
  /\ ~EffectPending
  /\ listeners > 0
  /\ \A b \in Bodies : body[b].impulses < MaxImpulses
  /\ \E eb \in EventTilts, eg \in EventTilts, ea \in {Num(0), Null} :
       orientation' = [beta |-> Coalesce(eb), gamma |-> Coalesce(eg),
                       alpha |-> Coalesce(ea)]
  /\ body' = Render(variant, accent, accent, triggerImpulse, triggerImpulse,
                    [b \in Bodies |-> body[b].offset])
  /\ matColor' = RenderColors(variant, accent, accent)
  /\ pointer' = RenderPointer(pointer)
  /\ UNCHANGED <<variant, scene, accent, triggerImpulse, platform, permission,
                 isSupported, listeners, effect, frames, probe, result>>

----------------------------------------------------------------------------
(* App: the click handler *)

\* Mutant: the updater applied twice per click
setTriggerImpulse_Twice(prev) == prev + 2

\* The updater handed to setTriggerImpulse: prev => prev + 1
setTriggerImpulse(prev) == prev + 1

handleCanvasClick ==
  /\ scene = "mounted"
  /\ ~EffectPending
  /\ triggerImpulse < MaxClicks
  /\ accent' = click(accent)
  /\ triggerImpulse' = setTriggerImpulse(triggerImpulse)
  /\ \E draws \in [Bodies -> PhaseSamples] :
       body' = Render(variant, accent, accent', triggerImpulse, triggerImpulse',
                      IF KeyedByAccent(variant) THEN draws
                      ELSE [b \in Bodies |-> body[b].offset])
  /\ matColor' = RenderColors(variant, accent, accent')
  /\ pointer' = RenderPointer(pointer)
  /\ UNCHANGED <<variant, scene, hookVars, frames, probe, result>>

----------------------------------------------------------------------------
(* Fixed-point arithmetic of the force field *)

\* The value a division by zero or 0 * Infinity leaves in a JS number
NaN == 2 ^ 30

IsNumber(x) == x # NaN

\* a / b to milli precision, rounded toward zero; x / 0 is not a number
Quot(a, b) ==
  IF a = NaN \/ b = NaN \/ b = 0 THEN NaN
  ELSE IF a >= 0 THEN a \div b ELSE -((-a) \div b)

Mul(a, b) == IF a = NaN \/ b = NaN THEN NaN ELSE a * b

Abs(x) == IF x < 0 THEN -x ELSE x

Max(a, b) == IF a >= b THEN a ELSE b

Min(a, b) == IF a <= b THEN a ELSE b

\* Math.max, Math.min, +, unary - of JS numbers: NaN in, NaN out
MathMax(a, b) == IF a = NaN \/ b = NaN THEN NaN ELSE Max(a, b)

MathMin(a, b) == IF a = NaN \/ b = NaN THEN NaN ELSE Min(a, b)

Add(a, b) == IF a = NaN \/ b = NaN THEN NaN ELSE a + b

Neg(a) == IF a = NaN THEN NaN ELSE -a

MathAbs(a) == IF a = NaN THEN NaN ELSE Abs(a)

\* Math.sqrt on whole numbers: the largest r with r * r <= n
RECURSIVE SqrtSearch(_, _, _)
SqrtSearch(n, lo, hi) ==
  IF lo >= hi THEN lo
  ELSE LET mid == (lo + hi + 1) \div 2
       IN IF mid * mid <= n THEN SqrtSearch(n, mid, hi)
          ELSE SqrtSearch(n, lo, mid - 1)

Sqrt(n) == SqrtSearch(n, 0, Min(n, 40000))

\* Math.sin in milli, on angles counted in steps of pi/10
SinTable == <<0, 309, 588, 809, 951, 1000, 951, 809, 588, 309,
              0, -309, -588, -809, -951, -1000, -951, -809, -588, -309>>

Sin(a) == SinTable[(a % Len(SinTable)) + 1]

\* Math.cos(a) = sin(a + pi/2)
Cos(a) == Sin(a + Len(SinTable) \div 4)

\* speed * t + phase in angle steps: speed in tenths, t = tick * pi/2 seconds
Angle(speed, tick, phase) == (speed * tick) \div 2 + phase

\* A position coordinate used as an angle (radians to steps of pi/10)
RadToSteps(x) == Quot(x * 10, 3142)

Zero3 == <<0, 0, 0>>

Add3(a, b) == <<Add(a[1], b[1]), Add(a[2], b[2]), Add(a[3], b[3])>>

\* Vector3.length()
Length(v) == Sqrt(v[1] * v[1] + v[2] * v[2] + v[3] * v[3])

\* Vector3.normalize(): this.divideScalar(this.length() || 1), a unit vector
\* in milli
NormalizeDivisor(len) == IF len = 0 THEN 1 ELSE len

Normalize(v) ==
  LET d == NormalizeDivisor(Length(v))
  IN <<Quot(v[1] * 1000, d), Quot(v[2] * 1000, d), Quot(v[3] * 1000, d)>>

\* Vector3.multiplyScalar
Scale(v, s) == <<Mul(v[1], s), Mul(v[2], s), Mul(v[3], s)>>

Negate(v) == <<-v[1], -v[2], -v[3]>>

----------------------------------------------------------------------------
(* The per-tick force field of each variant.  p in milli, results in micro *)

ForceVariants == LifecycleVariants \cup {"basic", "sphere", "debug", "small"}

\* forceMultiplier / inwardForce, in milli
ForceMultiplier(v) ==
  CASE v \in {"shared", "debug"} -> 300
    [] v = "basic" -> 150
    [] v = "sphere" -> 80
    [] OTHER -> 400

\* Mutant: the sign of the centering term is lost
Centering_Outward(v, p) ==
  IF v = "sphere" THEN Scale(Normalize(p), ForceMultiplier(v))
  ELSE Scale(p, ForceMultiplier(v))

\* The centering term of the per-frame impulse
Centering(v, p) ==
  IF v = "sphere"
  THEN \* toCenter = (-pos).normalize().multiplyScalar(0.08)
       Scale(Normalize(Negate(p)), ForceMultiplier(v))
  ELSE \* -currentPosition * forceMultiplier, per axis
       Scale(Negate(p), ForceMultiplier(v))

HasOscillation(v) ==
  v \in {"gyro", "optimized", "plain", "shared", "debug", "small"}

\* Mutant: sin on every axis
Oscillation_SinOnY(v, tick, offset, osc) ==
  IF v \in {"gyro", "optimized", "plain", "shared", "debug", "small"}
  THEN << Sin(Angle(osc[1], tick, offset[1])) * 100,
          Sin(Angle(osc[2], tick, offset[2])) * 100,
          Sin(Angle(osc[3], tick, offset[3])) * 50 >>
  ELSE <<0, 0, 0>>

\* Math.sin(t * oscSpeeds.x + offset.x) * 0.1, cos on y, sin on z * 0.05
Oscillation(v, tick, offset, osc) ==
  IF HasOscillation(v)
  THEN << Sin(Angle(osc[1], tick, offset[1])) * 100,
          Cos(Angle(osc[2], tick, offset[2])) * 100,
          Sin(Angle(osc[3], tick, offset[3])) * 50 >>
  ELSE Zero3

\* Math.max(-1, Math.min(1, tilt / maxTilt)), in milli
maxTilt == 30
gyroStrength == 150

\* Mutant: the tilt is scaled but not clamped
NormalizedTilt_NoClamp(tilt) == Quot(tilt * 1000, maxTilt)

NormalizedTilt(tilt) ==
  MathMax(-1000, MathMin(1000, Quot(Mul(tilt, 1000), maxTilt)))

\* Mutant: || in place of &&
GyroEnabled_Either(supported, perm) == supported \/ perm = "granted"

GyroEnabled(supported, perm) == supported /\ perm = "granted"

\* The gyroscope block of the gyro variant's Connector
GyroBias(v, supported, perm, o) ==
  IF HasGyroscope(v) /\ GyroEnabled(supported, perm)
  THEN << Mul(Neg(NormalizedTilt(o.gamma)), gyroStrength),
          Mul(NormalizedTilt(o.beta), gyroStrength),
          0 >>
  ELSE Zero3

\* The force the no-steering Connector computes (inward)
PlainForce(tick, p, offset) ==
  << -p[1] * 400 + Sin(Angle(8, tick, offset[1])) * 100,
     -p[2] * 400 + Cos(Angle(10, tick, offset[2])) * 100,
     -p[3] * 400 + Sin(Angle(6, tick, offset[3])) * 50 >>

\* The vectors Connector's (FloatingSphere's) callback hands to applyImpulse
FrameImpulses(v, tick, p, offset, osc, supported, perm, o) ==
  IF v = "sphere"
  THEN \* toCenter, then wave = sin/cos(time + pos) * 0.001 (milli * 1 milli)
       << Centering(v, p),
          << Sin(tick * 5 + RadToSteps(p[1])),
             Cos(tick * 5 + RadToSteps(p[2])),
             Sin(tick * 5 + RadToSteps(p[3])) >> >>
  ELSE IF v = "plain" THEN << PlainForce(tick, p, offset) >>
  ELSE << Add3(Add3(Centering(v, p), Oscillation(v, tick, offset, osc)),
               GyroBias(v, supported, perm, o)) >>

HasTorque(v) ==
  v \in {"gyro", "optimized", "plain", "shared", "debug", "small"}

torqueStrength == 1

\* Mutant: the torque scaled by the frequencies of the force oscillation
FrameTorques_Scaled(v, tick, offset) ==
  IF v \in {"gyro", "optimized", "plain", "shared", "debug", "small"}
  THEN << << Sin(Angle(8, tick, offset[1])),
             Cos(Angle(10, tick, offset[2])),
             Sin(Angle(6, tick, offset[3])) >> >>
  ELSE << >>

\* The vectors handed to applyTorqueImpulse
FrameTorques(v, tick, offset) ==
  IF HasTorque(v)
  THEN << << Sin(Angle(10, tick, offset[1])) * torqueStrength,
             Cos(Angle(10, tick, offset[2])) * torqueStrength,
             Sin(Angle(10, tick, offset[3])) * torqueStrength >> >>
  ELSE << >>

HasTrigger(v) == v \in LifecycleVariants \cup {"debug", "small"}

\* vec.multiplyScalar(50) / impulseMagnitude, in whole units
ImpulseMagnitude(v) ==
  CASE v = "debug" -> 0
    [] v = "small" -> 10
    [] OTHER -> 50

\* Mutant: the direction computed by hand as p / |p|, with no fallback for a
\* zero length
TriggerImpulses_RawDivide(v, api, trigger, p) ==
  IF HasTrigger(v) /\ TriggerEffect(api, trigger) = 1
  THEN << Scale(<<Quot(p[1] * 1000, Length(p)), Quot(p[2] * 1000, Length(p)),
                  Quot(p[3] * 1000, Length(p))>>, ImpulseMagnitude(v)) >>
  ELSE << >>

\* The vectors the trigger effect hands to applyImpulse, in milli
TriggerImpulses(v, api, trigger, p) ==
  IF HasTrigger(v) /\ TriggerEffect(api, trigger) = 1
  THEN << Scale(Normalize(p), ImpulseMagnitude(v)) >>
  ELSE << >>

----------------------------------------------------------------------------
(* Pointer and CameraGyro of the gyro scene.  Mouse coordinates, viewport   *)
(* sizes and camera coordinates in milli; pointer targets in micro.         *)

\* Mutant: the value passed on unclamped
Clamp_None(x, lo, hi) == x

\* Math.max(lo, Math.min(hi, x))
Clamp(x, lo, hi) == MathMax(lo, MathMin(hi, x))

pointerGyroStrength == 1500
pointerMaxTilt == 45

\* (mouse.x * viewport.width) / 2, (mouse.y * viewport.height) / 2, z = 0
PointerBase(mouse, viewport) ==
  << Quot(mouse[1] * viewport[1], 2), Quot(mouse[2] * viewport[2], 2), 0 >>

\* What the gyroscope block of Pointer adds to x, y and z
PointerGyroOffset(v, supported, perm, o) ==
  IF HasGyroscope(v) /\ GyroEnabled(supported, perm)
  THEN LET clampedGamma == Clamp(o.gamma, -pointerMaxTilt, pointerMaxTilt)
           clampedBeta == Clamp(o.beta, -pointerMaxTilt, pointerMaxTilt)
           totalTilt == Add(MathAbs(clampedGamma), MathAbs(clampedBeta))
       IN << Mul(Quot(Mul(clampedGamma, 1000), pointerMaxTilt), pointerGyroStrength),
             Mul(Quot(Mul(clampedBeta, 1000), pointerMaxTilt), pointerGyroStrength),
             Mul(Quot(Mul(totalTilt, 1000), pointerMaxTilt * 2), 500) >>
  ELSE Zero3

\* The vector handed to setNextKinematicTranslation
PointerTarget(v, mouse, viewport, supported, perm, o) ==
  Add3(PointerBase(mouse, viewport), PointerGyroOffset(v, supported, perm, o))

cameraStrength == 200
maxCameraTilt == 15

\* THREE.MathUtils.lerp(x, y, t) = (1 - t) * x + t * y, t in milli
Lerp(x, y, t) == Quot(Add(Mul(1000 - t, x), Mul(t, y)), 1000)

\* The point CameraGyro moves the camera toward: (clampedGamma * 0.2,
\* -clampedBeta * 0.2), in milli
CameraTarget(o) ==
  << Mul(Clamp(o.gamma, -maxCameraTilt, maxCameraTilt), cameraStrength),
     Mul(Neg(Clamp(o.beta, -maxCameraTilt, maxCameraTilt)), cameraStrength) >>

\* Mutant: && in place of || in the early return
CameraSteered_And(v, supported, perm) ==
  v = "gyro" /\ ~(~supported /\ perm # "granted")

\* Whether CameraGyro's callback gets past its first line
CameraSteered(v, supported, perm) ==
  HasGyroscope(v) /\ ~(~supported \/ perm # "granted")

\* CameraGyro's useFrame callback: the camera position (x, y) it leaves and
\* whether it called cam.lookAt
CameraFrame(v, supported, perm, o, cam) ==
  IF ~CameraSteered(v, supported, perm) THEN [pos |-> cam, lookAt |-> FALSE]
  ELSE [pos |-> << Lerp(cam[1], CameraTarget(o)[1], 30),
                   Lerp(cam[2], CameraTarget(o)[2], 30) >>,
        lookAt |-> TRUE]

----------------------------------------------------------------------------
(* A rendered frame: the useFrame callbacks *)

\* Mutant: the Pointer's cadence (every third frame) used for the bodies
SkipFrame_Every3(frameCount) == frameCount % 3 # 0

\* if (frameCount % 2 !== 0) return
SkipFrame(frameCount) == frameCount % 2 # 0

\* frameCount++ at the head of the frame-skipping callback
NextFrameCount(v, frameCount) ==
  IF FrameSkipping(v) THEN frameCount + 1 ELSE frameCount

\* Whether the callback returns before it computes anything
FrameSkipped(v, count) == FrameSkipping(v) /\ SkipFrame(count)

\* Connector's useFrame callback on one frame
ConnectorFrame(v, inst) ==
  LET count == NextFrameCount(v, inst.frameCount)
      skipped == FrameSkipped(v, count)
  IN [inst EXCEPT
        !.frameCount = count,
        !.applied = IF ~skipped /\ inst.api THEN 1 ELSE 0,
        \* onBeforeRender of the mesh, after the callbacks of this frame
        !.materialRef = TRUE]

\* if (frameCount % 3 !== 0) return, in Pointer
SkipPointerFrame(frameCount) == frameCount % 3 # 0

\* Pointer's useFrame callback on one frame: ref.current is set, the body is
\* moved unless the callback returned early
PointerFrame(v, p) ==
  LET count == NextFrameCount(v, p.frameCount)
  IN [frameCount |-> count,
      moved |-> ~(FrameSkipping(v) /\ SkipPointerFrame(count))]

\* Model's useFrame callback of slot b: material.color.set(color).  The
\* material of nodes.connector is one object, shared by every Model.
ModelFrame(v, mc, b) ==
  IF MaterialRefLazy(v) /\ ~body[b].materialRef THEN mc
  ELSE IF SharedMaterial(v) THEN [x \in Bodies |-> ConfiguredColor(accent, b)]
  ELSE [mc EXCEPT ![b] = ConfiguredColor(accent, b)]

RECURSIVE PaintInOrder(_, _, _, _)
PaintInOrder(v, mc, order, k) ==
  IF k > Len(order) THEN mc
  ELSE PaintInOrder(v, ModelFrame(v, mc, order[k]), order, k + 1)

\* The orders in which the callbacks of the bodies may be called
Orders == {s \in [1..NumBodies -> Bodies] : \A i, j \in 1..NumBodies : s[i] = s[j] => i = j}

\* The steering the callbacks of one frame apply, from the props of the
\* latest render: the bias of the Connectors, the offset of the Pointer and
\* the point the camera is moved toward (moved: CameraGyro did not return
\* early).
FrameSteering(v, supported, perm, o) ==
  [kind |-> "steering",
   permission |-> perm,
   bias |-> GyroBias(v, supported, perm, o),
   pointer |-> PointerGyroOffset(v, supported, perm, o),
   moved |-> CameraSteered(v, supported, perm),
   camera |-> IF CameraSteered(v, supported, perm) THEN CameraTarget(o)
              ELSE <<0, 0>>]

Frame ==
  /\ scene = "mounted"
  /\ frames < MaxFrames
  /\ frames' = frames + 1
  /\ body' = [b \in Bodies |-> ConnectorFrame(variant, body[b])]
  /\ pointer' = PointerFrame(variant, pointer)
  /\ \E order \in Orders : matColor' = PaintInOrder(variant, matColor, order, 1)
  /\ result' = FrameSteering(variant, isSupported, permission, orientation)
  /\ UNCHANGED <<variant, scene, accent, triggerImpulse, hookVars, probe>>

----------------------------------------------------------------------------
(* The scene is torn down: every component unmounts *)

Teardown ==
  /\ scene = "mounted"
  /\ scene' = "unmounted"
  /\ body' = [b \in Bodies |-> [body[b] EXCEPT !.api = FALSE]]
  /\ listeners' = listeners - (IF effect.cleanup THEN 1 ELSE 0)
  /\ effect' = [effect EXCEPT !.cleanup = FALSE]
  /\ UNCHANGED <<variant, accent, triggerImpulse, platform, orientation,
                 permission, isSupported, matColor, pointer, frames, probe,
                 result>>

Next ==
  \/ GyroEffect
  \/ handleOrientation
  \/ handleCanvasClick
  \/ Frame
  \/ Teardown

Spec == Init /\ [][Next]_vars

----------------------------------------------------------------------------
(* Claims checked under Spec *)

\* C1: each increment of triggerImpulse causes exactly one application of the
\* one-shot impulse to every mounted Connector body (a body whose handle is
\* set): the impulses a body has received equal the increments so far.
C1_OneImpulsePerIncrement ==
  \A b \in Bodies : body[b].api => body[b].impulses = triggerImpulse

\* C2: while triggerImpulse keeps its value no further one-shot impulse is
\* applied to any body, whatever re-renders the Connector.
C2_NoImpulseWithoutIncrement ==
  [][triggerImpulse' = triggerImpulse =>
       \A b \in Bodies : body'[b].impulses = body[b].impulses]_vars

\* C6: the phase offsets of each body keep the values drawn at its creation
\* through every frame, re-render and click while the scene exists.
C6_OffsetsNeverChange ==
  [][scene' = "mounted" =>
       \A b \in Bodies : body'[b].offset = body[b].offset]_vars

\* C7: no click and no other event destroys a body or creates one: the
\* instance mounted in each slot stays the same until the scene is torn down.
C7_BodiesPersist ==
  [][scene' = "mounted" =>
       \A b \in Bodies : body'[b].gen = body[b].gen]_vars

C9_OwnColourAfterFrame ==
  [][frames' = frames + 1 =>
       \A b \in Bodies :
         ~(MaterialRefLazy(variant) /\ ~body[b].materialRef) =>
           matColor'[b] = ConfiguredColor(accent, b)]_vars

----------------------------------------------------------------------------
(* SpecForce: the callbacks applied to sampled inputs *)

PositionSamples == {<<0, 0, 0>>, <<2000, 0, 0>>, <<-3000, 0, 4000>>, <<0, -500, 0>>}

TiltSamples == {-90, 0, 15, 45}

\* oscX, oscY, oscZ in tenths; the optimized variant draws them per body
OscSpeedSamples(v) ==
  IF v = "optimized" THEN {<<8, 10, 6>>, <<10, 12, 8>>} ELSE {<<8, 10, 6>>}

\* mouse.x, mouse.y in [-1, 1] (milli); the gyro scene's Pointer is probed
MouseSamples(v) ==
  IF HasGyroscope(v) THEN {<<0, 0>>, <<500, -1000>>} ELSE {<<0, 0>>}

\* viewport.width, viewport.height (milli)
ViewportSamples == {<<6000, 4600>>}

\* camera position x, y before the frame (milli); the Canvas starts it at 0, 0
CameraSamples(v) ==
  IF HasGyroscope(v) THEN {<<0, 0>>, <<1000, -500>>} ELSE {<<0, 0>>}

InitForce ==
  /\ variant \in ForceVariants
  /\ scene = "mounted"
  /\ accent = 0
  /\ triggerImpulse \in 0..1
  /\ platform = "none"
  /\ IF HasGyroscope(variant)
     THEN /\ orientation \in [beta : TiltSamples, gamma : TiltSamples, alpha : {0}]
          /\ permission \in {"unknown", "granted", "denied"}
          /\ isSupported \in BOOLEAN
     ELSE /\ orientation = [beta |-> 0, gamma |-> 0, alpha |-> 0]
          /\ permission = "unknown"
          /\ isSupported = FALSE
  /\ listeners = 0
  /\ effect = [dep |-> "none", cleanup |-> FALSE, runs |-> 0]
  /\ body = [b \in Bodies |-> NewInstance(variant, 1, Zero3, 0)]
  /\ matColor = [b \in Bodies |-> InitialColor(variant, b)]
  /\ pointer = NewPointer
  /\ frames = 0
  /\ probe \in [kind : {"inputs"}, tick : 0..MaxTick, p : PositionSamples,
                offset : PhaseSamples, osc : OscSpeedSamples(variant),
                mouse : MouseSamples(variant), viewport : ViewportSamples,
                cam : CameraSamples(variant)]
  /\ result = NoResult

\* One call of the useFrame callback of a body whose handle is bound, on the
\* inputs of the probe: the callback advances the frameCount of its closure
\* and either returns early or hands its vectors to the body.
EvalFrame ==
  /\ frames < MaxFrames
  /\ frames' = frames + 1
  /\ body' = [b \in Bodies |-> ConnectorFrame(variant, body[b])]
  /\ pointer' = PointerFrame(variant, pointer)
  /\ LET count == NextFrameCount(variant, body[CHOOSE b \in Bodies : TRUE].frameCount)
     IN result' =
          IF FrameSkipped(variant, count) THEN [kind |-> "skipped"]
          ELSE [kind |-> "frame",
                centering |-> Centering(variant, probe.p),
                bias |-> GyroBias(variant, isSupported, permission, orientation),
                impulses |-> FrameImpulses(variant, probe.tick, probe.p,
                                           probe.offset, probe.osc, isSupported,
                                           permission, orientation),
                torques |-> FrameTorques(variant, probe.tick, probe.offset),
                \* the callbacks of Pointer and CameraGyro on the same frame
                pointer |-> PointerTarget(variant, probe.mouse, probe.viewport,
                                          isSupported, permission, orientation),
                camera |-> CameraFrame(variant, isSupported, permission,
                                       orientation, probe.cam)]
  /\ UNCHANGED <<variant, scene, accent, triggerImpulse, hookVars, matColor,
                 probe>>

\* One run of the trigger effect of a body whose handle is bound
EvalTrigger ==
  /\ HasTrigger(variant)
  /\ result' = [kind |-> "trigger",
                impulses |-> TriggerImpulses(variant, TRUE, triggerImpulse, probe.p)]
  /\ UNCHANGED <<variant, scene, accent, triggerImpulse, hookVars, body,
                 matColor, pointer, frames, probe>>

NextForce ==
  \/ EvalFrame
  \/ EvalTrigger

SpecForce == InitForce /\ [][NextForce]_vars

----------------------------------------------------------------------------
(* Claims checked under SpecForce *)

\* What the gyro variant adds to the no-steering force of the same (t, p, phi)
AddedBias ==
  LET base == PlainForce(probe.tick, probe.p, probe.offset)
  IN [i \in 1..3 |-> result.impulses[1][i] - base[i]]

\* C3: for every raw beta and gamma the gyroscope bias added to a Connector's
\* force is at most gyroStrength (0.15, here 150000 micro) in absolute value on
\* x and on y, and 0 on z.
C3_GyroBiasClamped ==
  (variant = "gyro" /\ result.kind = "frame") =>
    /\ Abs(AddedBias[1]) <= 150000
    /\ Abs(AddedBias[2]) <= 150000
    /\ AddedBias[3] = 0

\* C3 witness: a tilt beyond maxTilt, steering enabled, the bias at the clamp
C3_Witness ==
  /\ variant = "gyro" /\ result.kind = "frame"
  /\ isSupported /\ permission = "granted"
  /\ orientation.gamma = -90 /\ orientation.beta = 45
  /\ AddedBias = <<150000, 150000, 0>>

\* C4: when the gyroscope is unsupported or permission is not 'granted' the
\* force applied is exactly the force of the no-steering code path for the
\* same (t, p, phi), whatever the stored orientation holds.
C4_DisabledEqualsNoSteering ==
  (variant = "gyro" /\ result.kind = "frame"
     /\ ~(isSupported /\ permission = "granted")) =>
    result.impulses = << PlainForce(probe.tick, probe.p, probe.offset) >>

\* C4 witness: supported but denied, with a non-zero stored orientation
C4_Witness ==
  /\ variant = "gyro" /\ result.kind = "frame"
  /\ isSupported /\ permission = "denied"
  /\ orientation.gamma = 15 /\ orientation.beta = -90
  /\ probe.p = <<2000, 0, 0>>

\* C5: a trigger that fires for a body at the origin applies no impulse or the
\* zero vector, and no component of an impulse the trigger effect applies is
\* NaN or infinite, for every body position.
C5_TriggerImpulseFinite ==
  result.kind = "trigger" =>
    /\ probe.p = Zero3 => result.impulses \in {<< >>, <<Zero3>>}
    /\ \A k \in 1..Len(result.impulses) :
         \A i \in 1..3 : IsNumber(result.impulses[k][i])

\* C5 witness: the trigger has fired for a body at the origin
C5_Witness ==
  /\ result.kind = "trigger"
  /\ triggerImpulse > 0
  /\ probe.p = Zero3
  /\ result.impulses = <<Zero3>>

C11_SameInputsSameOutputs ==
  [][(/\ ~(HasGyroscope(variant) /\ GyroEnabled(isSupported, permission))
      /\ result.kind \in {"frame", "skipped"}
      /\ result'.kind \in {"frame", "skipped"})
       => result' = result]_vars

\* C12: with steering absent and forceMultiplier 0.4, the force for
\* p = (2,0,0), phi = (0,0,0), t = 0 is (-0.8, 0.1, 0): centering plus
\* amplitude * (sin, cos, sin)(frequency * t + phi) with amplitudes
\* (0.1, 0.1, 0.05).  The pairing is pinned at phi = (pi/2, 13pi/10, 18pi/10)
\* and the frequencies (0.8, 1.0, 0.6) at t = pi.  The scene that removed the
\* oscillation applies (-0.8, 0, 0).
C12_ScenarioA ==
  (/\ result.kind = "frame"
   /\ variant \in {"gyro", "optimized", "plain", "frameskip"}
   /\ ~(isSupported /\ permission = "granted")
   /\ probe.p = <<2000, 0, 0>>) =>
    IF variant = "frameskip" THEN result.impulses = << <<-800000, 0, 0>> >>
    ELSE /\ (probe.tick = 0 /\ probe.offset = <<0, 0, 0>>) =>
              result.impulses = << <<-800000, 100000, 0>> >>
         /\ (probe.tick = 0 /\ probe.offset = <<5, 13, 18>>) =>
              result.impulses = << <<-700000, -58800, -29400>> >>
         /\ (probe.tick = 2 /\ probe.offset = <<0, 0, 0>>
               /\ probe.osc = <<8, 10, 6>>) =>
              result.impulses = << <<-741200, -100000, 47550>> >>

\* C12 witness: Scenario A evaluated in the no-steering scene
C12_Witness ==
  /\ variant = "plain" /\ result.kind = "frame"
  /\ probe.tick = 0 /\ probe.p = <<2000, 0, 0>> /\ probe.offset = <<0, 0, 0>>
  /\ result.impulses = << <<-800000, 100000, 0>> >>

C14_TiltSigns ==
  (/\ variant = "gyro" /\ result.kind = "frame"
   /\ isSupported /\ permission = "granted"
   /\ probe.mouse = <<0, 0>> /\ probe.cam = <<0, 0>>) =>
    /\ orientation.gamma > 0 =>
         /\ result.bias[1] > 0
         /\ result.pointer[1] > 0
         /\ result.camera.pos[1] > 0
    /\ orientation.beta > 0 =>
         /\ result.bias[2] > 0
         /\ result.pointer[2] > 0
         /\ result.camera.pos[2] > 0

\* C15: the trigger counter starts at 0 and never decreases; a step changes
\* it exactly when it is a canvas click, and then by exactly one, so after n
\* clicks it equals n.
C15_TriggerCounts ==
  /\ triggerImpulse = 0
  /\ [][triggerImpulse' >= triggerImpulse]_vars
  /\ [][(triggerImpulse' # triggerImpulse) => (triggerImpulse' = triggerImpulse + 1)]_vars
  /\ [][(triggerImpulse' # triggerImpulse) <=> handleCanvasClick]_vars

\* C15 witness: two clicks, with effect runs, an orientation event and a
\* frame around them, have left the counter at 2
C15_Witness ==
  /\ variant = "gyro"
  /\ triggerImpulse = 2 /\ accent = 2
  /\ effect.runs = 2 /\ orientation.gamma # 0 /\ frames > 0

\* C16: whatever a deviceorientation event carries, null or missing fields
\* included, the stored orientation has three numbers (0 for a missing one),
\* and the steering a later frame derives from it is made of numbers inside
\* the clamp bounds, never NaN.
C16_OrientationAlwaysNumbers ==
  /\ IsNumber(orientation.beta) /\ orientation.beta \in -360..360
  /\ IsNumber(orientation.gamma) /\ orientation.gamma \in -360..360
  /\ IsNumber(orientation.alpha) /\ orientation.alpha \in -360..360
  /\ result.kind = "steering" =>
       /\ \A i \in 1..3 : IsNumber(result.bias[i]) /\ IsNumber(result.pointer[i])
       /\ Abs(result.bias[1]) <= 150000 /\ Abs(result.bias[2]) <= 150000
       /\ IsNumber(result.camera[1]) /\ IsNumber(result.camera[2])

\* C16 witness: an event with beta = -90 and gamma null was stored as
\* (-90, 0) and a frame derived the clamped bias from it
C16_Witness ==
  /\ variant = "gyro" /\ permission = "granted" /\ listeners > 0
  /\ orientation.beta = -90 /\ orientation.gamma = 0
  /\ result.kind = "steering"
  /\ result.bias = <<0, -150000, 0>>

\* What the Pointer's gyroscope block added to the mouse position mapped to
\* the viewport (6 x 4.6): mouse (0.5, -1) maps to (1.5, -2.3)
C17_Offset ==
  LET base == IF probe.mouse = <<0, 0>> THEN <<0, 0, 0>>
              ELSE <<1500000, -2300000, 0>>
  IN [i \in 1..3 |-> result.pointer[i] - base[i]]

\* C17: for every raw orientation the gyroscope offset of the Pointer is at
\* most pointerGyroStrength (1.5) in absolute value on x and on y and the
\* Pointer's z lies in [0, 0.5]; with the gyroscope unsupported or not
\* granted the target is exactly the mapped mouse position with z = 0.
C17_PointerOffsetClamped ==
  (variant = "gyro" /\ result.kind = "frame") =>
    /\ Abs(C17_Offset[1]) <= 1500000
    /\ Abs(C17_Offset[2]) <= 1500000
    /\ result.pointer[3] >= 0 /\ result.pointer[3] <= 500000
    /\ ~(isSupported /\ permission = "granted") => C17_Offset = <<0, 0, 0>>

\* C17 witness: tilts beyond the Pointer's maxTilt on both axes, steering
\* enabled, the offset at its bounds on x, y and z
C17_Witness ==
  /\ variant = "gyro" /\ result.kind = "frame"
  /\ isSupported /\ permission = "granted"
  /\ orientation.gamma = -90 /\ orientation.beta = 45
  /\ probe.mouse = <<500, -1000>>
  /\ result.pointer = <<0, -800000, 500000>>

\* C18: for a body at p # 0 the trigger applies normalize(p) * impulseMagnitude:
\* one impulse, parallel to p and pointing away from the origin, whose
\* magnitude is the same non-zero impulseMagnitude (50; 10 in the scene with
\* the smaller models) at every distance |p|.
C18_ImpulseRadial ==
  (result.kind = "trigger" /\ triggerImpulse > 0 /\ probe.p # <<0, 0, 0>>) =>
    /\ Len(result.impulses) = 1
    /\ LET imp == result.impulses[1]
           p == probe.p
           mag == IF variant = "small" THEN 10 ELSE 50
       IN /\ imp[1] * p[2] = imp[2] * p[1]
          /\ imp[2] * p[3] = imp[3] * p[2]
          /\ imp[1] * p[3] = imp[3] * p[1]
          /\ imp[1] * p[1] + imp[2] * p[2] + imp[3] * p[3] > 0
          /\ Length(<<imp[1] \div 10, imp[2] \div 10, imp[3] \div 10>>) = mag * 100

----------------------------------------------------------------------------
(* SpecSpawn: scene population.  The component that creates the bodies      *)
(* hands each RigidBody a position prop; body[b].pos is the prop of the      *)
(* latest render, in milli.                                                  *)

SpawnVariants == {"gyro", "small", "sphere", "cursor"}

\* Math.random() in milli: a value in [0, 1)
RandomSamples == {0, 999}

RandomTriples == RandomSamples \X RandomSamples \X RandomSamples

\* THREE.MathUtils.randFloatSpread(range) = range * (0.5 - Math.random())
randFloatSpread(range, u) == range * (500 - u)

\* The position drawn for one body from three values of Math.random()
SpawnPosition(v, u) ==
  CASE v = "sphere" ->
         \* (Math.random() - 0.5) * 10, * 6, * 6
         << (u[1] - 500) * 10, (u[2] - 500) * 6, (u[3] - 500) * 6 >>
    [] v = "small" ->
         << randFloatSpread(5, u[1]), randFloatSpread(5, u[2]),
            randFloatSpread(5, u[3]) >>
    [] OTHER ->
         << randFloatSpread(10, u[1]), randFloatSpread(10, u[2]),
            randFloatSpread(10, u[3]) >>

\* The position is computed inside useMemo (Connector) and not in the body
\* of the render (FloatingObjects)
PositionMemoized(v) == v \in {"gyro", "small"}

\* What renders the creating component again: a state change of App for the
\* Connectors, any change of the canvas store for the FloatingObjects that
\* calls useThree(); the hosts of FloatingObjects.jsx hold no state.
Rerenders(v) == v # "sphere"

InitSpawn ==
  /\ variant \in SpawnVariants
  /\ scene = "mounted"
  /\ accent = 0
  /\ triggerImpulse = 0
  /\ platform = "none"
  /\ orientation = [beta |-> 0, gamma |-> 0, alpha |-> 0]
  /\ permission = "unknown"
  /\ isSupported = FALSE
  /\ listeners = 0
  /\ effect = [dep |-> "none", cleanup |-> FALSE, runs |-> 0]
  /\ \E draws \in [Bodies -> RandomTriples] :
       body = [b \in Bodies |->
                 [gen |-> 1, pos |-> SpawnPosition(variant, draws[b]),
                  renders |-> 0]]
  /\ matColor = [b \in Bodies |-> "white"]
  /\ pointer = NewPointer
  /\ frames = 0
  /\ probe = NoProbe
  /\ result = NoResult

\* One more render of the component that creates the bodies; every body
\* keeps its key
Rerender ==
  /\ Rerenders(variant)
  /\ \A b \in Bodies : body[b].renders < MaxRenders
  /\ \E draws \in [Bodies -> RandomTriples] :
       body' = [b \in Bodies |->
                  [body[b] EXCEPT
                     !.renders = @ + 1,
                     !.pos = IF PositionMemoized(variant) THEN @
                             ELSE SpawnPosition(variant, draws[b])]]
  /\ UNCHANGED <<variant, scene, accent, triggerImpulse, hookVars, matColor,
                 pointer, frames, probe, result>>

NextSpawn == Rerender

SpecSpawn == InitSpawn /\ [][NextSpawn]_vars

\* C19: every body is created inside the spawn volume (each coordinate
\* within half the spread: 5, 2.5 in the scene with the smaller models,
\* 5 x 3 x 3 for FloatingObjects.jsx), and no later render of the creating
\* component draws a new position for a body that exists.
C19_SpawnOnceInVolume ==
  /\ [](\A b \in Bodies :
          LET half == CASE variant = "small" -> <<2500, 2500, 2500>>
                        [] variant = "sphere" -> <<5000, 3000, 3000>>
                        [] OTHER -> <<5000, 5000, 5000>>
          IN \A i \in 1..3 : body[b].pos[i] >= -half[i] /\ body[b].pos[i] <= half[i])
  /\ [][\A b \in Bodies :
          (body'[b].gen = body[b].gen) => (body'[b].pos = body[b].pos)]_vars

----------------------------------------------------------------------------
(* Claims checked under SpecForce, continued *)

\* 0.001 * (sin(t + phi_x), cos(t + phi_y), sin(t + phi_z)) in micro, for
\* t = tick * pi/2 and the two sampled phase triples
C20_Expected ==
  IF probe.offset = <<0, 0, 0>>
  THEN CASE probe.tick % 4 = 0 -> <<0, 1000, 0>>
         [] probe.tick % 4 = 1 -> <<1000, 0, 1000>>
         [] probe.tick % 4 = 2 -> <<0, -1000, 0>>
         [] OTHER -> <<-1000, 0, -1000>>
  ELSE CASE probe.tick % 4 = 0 -> <<1000, -588, -588>>
         [] probe.tick % 4 = 1 -> <<0, 809, 809>>
         [] probe.tick % 4 = 2 -> <<-1000, 588, 588>>
         [] OTHER -> <<0, -809, -809>>

\* C20: in every scene that applies a torque it is torqueStrength (0.001)
\* times (sin(t + phi_x), cos(t + phi_y), sin(t + phi_z)), with the phase
\* offsets of the force oscillation and no frequency scaling, whatever the
\* position, the steering signal and the trigger counter are; each component
\* is at most 0.001 in absolute value.
C20_TorqueFormula ==
  (/\ result.kind = "frame"
   /\ variant \in {"gyro", "optimized", "plain", "shared", "debug", "small"}) =>
    /\ result.torques = << C20_Expected >>
    /\ \A i \in 1..3 : Abs(result.torques[1][i]) <= 1000

\* C20 witness: the torque at t = pi/2 with zero phases, evaluated with
\* steering enabled and tilted, away from the origin and after a trigger
C20_Witness ==
  /\ variant = "gyro" /\ result.kind = "frame"
  /\ isSupported /\ permission = "granted" /\ orientation.gamma = 45
  /\ probe.p = <<-3000, 0, 4000>> /\ triggerImpulse = 1
  /\ probe.tick = 1 /\ probe.offset = <<0, 0, 0>>
  /\ result.torques = << <<1000, 0, 1000>> >>

\* C21: while the gyroscope is unsupported or permission is not 'granted',
\* CameraGyro's callback leaves the camera where it was (position unchanged,
\* no lookAt), whatever the stored orientation holds.
C21_CameraUntouched ==
  (/\ variant = "gyro" /\ result.kind = "frame"
   /\ (~isSupported \/ permission # "granted")) =>
    /\ result.camera.pos = probe.cam
    /\ ~result.camera.lookAt

\* C21 witness: supported but denied, tilted, the camera away from its rest
\* position and left there
C21_Witness ==
  /\ variant = "gyro" /\ result.kind = "frame"
  /\ isSupported /\ permission = "denied"
  /\ orientation.gamma = 45 /\ orientation.beta = -90
  /\ probe.cam = <<1000, -500>>
  /\ result.camera = [pos |-> <<1000, -500>>, lookAt |-> FALSE]

----------------------------------------------------------------------------
(* Claims checked under Spec, continued *)

\* C22: the hook has at most one 'deviceorientation' listener registered on
\* window at any moment, and after the unmount none of its listeners is
\* left (every listener it registered was removed by a cleanup).
C22_AtMostOneListener ==
  /\ listeners <= 1
  /\ scene = "unmounted" => listeners = 0

\* C23: permission only moves from 'unknown' to 'granted' or to 'denied' and
\* is final once set; it is 'granted' only where DeviceOrientationEvent
\* exists without requestPermission, so 'granted' implies isSupported in
\* every rendered state and never occurs on a platform that requires a
\* permission request.
C23_PermissionFinal ==
  /\ [](permission \in {"unknown", "granted", "denied"})
  /\ [][(permission' # permission) =>
          (permission = "unknown" /\ permission' \in {"granted", "denied"})]_vars
  /\ [](permission = "granted" => (isSupported /\ platform = "plain"))
  /\ [](platform = "ios" => permission # "granted")

\* C23 witness: granted and supported after both effect runs, with an
\* orientation event and a click delivered afterwards
C23_Witness ==
  /\ variant = "gyro" /\ platform = "plain"
  /\ permission = "granted" /\ isSupported
  /\ effect.runs = 2 /\ orientation.beta # 0 /\ triggerImpulse > 0

\* C24: in every Connector variant the handle of a mounted rigid body
\* (api.current) is set, so every rendered frame applies the centering force
\* and torque to the body (in the variants that skip no frame) and the
\* impulse of a click reaches it.
C24_HandleSetOnceMounted ==
  scene = "mounted" =>
    \A b \in Bodies :
      /\ body[b].api
      \* materialRef: this instance has been through a rendered frame
      /\ (body[b].materialRef /\ ~FrameSkipping(variant)) => body[b].applied = 1
      /\ triggerImpulse > 0 => body[b].impulses > 0

\* C25: in the frame-skipping variant the centering force is applied on
\* exactly every second rendered frame and the Pointer is moved on exactly
\* every third rendered frame, whatever renders happen between the frames.
C25_Cadence ==
  [][(variant = "frameskip" /\ frames' = frames + 1) =>
       (/\ \A b \in Bodies : (body'[b].applied = 1) <=> (frames' % 2 = 0)
        /\ pointer'.moved <=> (frames' % 3 = 0))]_vars

\* C26: the accent index lies in 0..accents.length-1 and equals the trigger
\* counter modulo accents.length; a click advances both in one render and
\* nothing advances one without the other.
C26_AccentFollowsTrigger ==
  /\ [](accent \in 0..(Len(accents) - 1))
  /\ [](accent = triggerImpulse % Len(accents))
  /\ [][(accent' # accent) <=> (triggerImpulse' # triggerImpulse)]_vars
  /\ [][(triggerImpulse' # triggerImpulse) =>
          (/\ triggerImpulse' = triggerImpulse + 1
           /\ accent' = (accent + 1) % Len(accents))]_vars

\* C26 witness: the fourth click has wrapped the accent back to 0
C26_Witness ==
  /\ scene = "mounted"
  /\ triggerImpulse = Len(accents)
  /\ accent = 0

\* C27: for every accent index the configuration list has 9 entries; the
\* first six do not depend on the accent and are not flagged, the last three
\* are flagged accent and carry accents[a]; a click changes the configured
\* colour of exactly the last three, to the next accent colour.
C27_ShuffleShape ==
  /\ [](/\ accent \in 0..3
        /\ Len(shuffle(accent)) = 9
        /\ \A i \in 1..6 : /\ shuffle(accent)[i] = shuffle(0)[i]
                           /\ ~shuffle(accent)[i].accent
        /\ \A i \in 7..9 : /\ shuffle(accent)[i].accent
                           /\ shuffle(accent)[i].color = accents[accent + 1])
  /\ [][(accent' # accent) =>
          \A i \in 1..9 :
            /\ (shuffle(accent')[i] # shuffle(accent)[i]) <=> (i \in 7..9)
            /\ (i \in 7..9) =>
                 (/\ shuffle(accent')[i].color = accents[((accent + 1) % 4) + 1]
                  /\ shuffle(accent')[i].roughness = shuffle(accent)[i].roughness
                  /\ shuffle(accent')[i].metalness = shuffle(accent)[i].metalness)]_vars

\* C27 witness: three clicks in, the last accent is configured and a body
\* that takes its colour from the list shows it
C27_Witness ==
  /\ accent = 3
  /\ shuffle(accent)[7].color = "#fff500"
  /\ \E b \in Bodies : shuffle(accent)[b + 1].accent /\ matColor[b] = "#fff500"

----------------------------------------------------------------------------
(* Specification SpecCursor: the frame callback of the FloatingObjects that *)
(* pushes the bodies away from the cursor.  Positions are in tenths of a    *)
(* unit, squared distances in hundredths, impulses in thousandths.          *)

\* cursorPos after unproject(camera)
CursorSamples == {<<0, 0, 0>>, <<10, -20, 5>>}

\* body.translation(): at the cursor, 0.1 away, just inside the radius, at
\* distance 4 exactly, outside
TranslationSamples ==
  {<<0, 0, 0>>, <<10, -20, 5>>, <<1, 0, 0>>, <<-39, 0, 0>>, <<40, 0, 0>>,
   <<50, 50, -50>>}

\* const radius = 4
radius == 4

\* dx * dx + dy * dy + dz * dz
distSq(d) == d[1] * d[1] + d[2] * d[2] + d[3] * d[3]

\* Mutant: the 0.5 of the denominator left out
impulse_NoSoftening(d) ==
  << Quot(d[1] * 100000, distSq(d)), Quot(d[2] * 100000, distSq(d)),
     Quot(d[3] * 100000, distSq(d)) >>

\* strength = 10 / (distSq + 0.5); impulse = d * strength
impulse(d) ==
  << Quot(d[1] * 100000, distSq(d) + 50), Quot(d[2] * 100000, distSq(d) + 50),
     Quot(d[3] * 100000, distSq(d) + 50) >>

\* Mutant: the guard on the entry missing
HandleRead_Unguarded(set) == TRUE

\* if (!body) continue: whether the loop goes on to use the entry
HandleRead(set) == set

\* One iteration of the loop over bodies.current.  set: the entry holds a
\* body (the ref callback stored null when its RigidBody unmounted).
\* called: methods were invoked on the entry; onNull: on a null entry.
CursorBody(set, p, c) ==
  LET d == << p[1] - c[1], p[2] - c[2], p[3] - c[3] >>
      applied == distSq(d) < radius * radius * 100
  IN IF ~HandleRead(set)
     THEN [called |-> FALSE, onNull |-> FALSE, applied |-> FALSE, impulse |-> Zero3]
     ELSE [called |-> TRUE, onNull |-> ~set, applied |-> set /\ applied,
           impulse |-> IF set /\ applied THEN impulse(d) ELSE Zero3]

InitCursor ==
  /\ variant = "cursor"
  /\ scene = "mounted"
  /\ accent = 0
  /\ triggerImpulse = 0
  /\ InitHook
  /\ \E draws \in [Bodies -> {<<0, 0, 0>>, <<999, 999, 999>>}] :
       body = [b \in Bodies |->
                 [gen |-> 1, pos |-> SpawnPosition(variant, draws[b]),
                  renders |-> 0]]
  /\ matColor = [b \in Bodies |-> "white"]
  /\ pointer = NewPointer
  /\ frames = 0
  /\ probe \in [kind : {"cursor"}, cursor : CursorSamples,
                p : [Bodies -> TranslationSamples], set : [Bodies -> BOOLEAN]]
  /\ result = NoResult

\* The useFrame callback of FloatingObjects on one frame
CursorFrame ==
  /\ frames < MaxFrames
  /\ frames' = frames + 1
  /\ result' = [kind |-> "cursor",
                body |-> [b \in Bodies |->
                            CursorBody(probe.set[b], probe.p[b], probe.cursor)]]
  /\ UNCHANGED <<variant, scene, accent, triggerImpulse, hookVars, body,
                 matColor, pointer, probe>>

NextCursor == CursorFrame

SpecCursor == InitCursor /\ [][NextCursor]_vars

\* C28: on a frame a body receives an impulse only if its squared distance
\* to the cursor is below 16; the impulse is (pos - cursor) * 10 /
\* (distSq + 0.5) (to the rounding of the last digit), a number in every
\* component, directed away from the cursor, and the zero vector for a body
\* at the cursor; a body at distance 4 or more receives none.
C28_Repulsion ==
  result.kind = "cursor" =>
    \A b \in Bodies :
      probe.set[b] =>
        LET d == << probe.p[b][1] - probe.cursor[1],
                    probe.p[b][2] - probe.cursor[2],
                    probe.p[b][3] - probe.cursor[3] >>
            q == d[1] * d[1] + d[2] * d[2] + d[3] * d[3]
            r == result.body[b]
        IN /\ r.applied <=> (q < 1600)
           /\ r.applied =>
                \A i \in 1..3 :
                  /\ IsNumber(r.impulse[i])
                  /\ Abs(r.impulse[i] * (q + 50) - d[i] * 100000) < q + 50
                  /\ r.impulse[i] * d[i] >= 0
                  /\ (d[i] # 0) => (r.impulse[i] # 0)
           /\ (d = Zero3) => (r.applied /\ r.impulse = Zero3)

\* C28 witness: one body 0.1 from the cursor is pushed away with
\* 0.1 * 10 / 0.51, the other, at distance 4 exactly, is left alone
C28_Witness ==
  /\ result.kind = "cursor"
  /\ \E b1, b2 \in Bodies :
       /\ probe.set[b1] /\ probe.set[b2]
       /\ probe.cursor = <<0, 0, 0>>
       /\ probe.p[b1] = <<1, 0, 0>>
       /\ result.body[b1].applied /\ result.body[b1].impulse = <<1960, 0, 0>>
       /\ probe.p[b2] = <<40, 0, 0>>
       /\ ~result.body[b2].applied

----------------------------------------------------------------------------
(* Specification SpecTypes: one render of the FloatingObjects that hands a  *)
(* material type to every sphere: the type list, its shuffle, the spheres.  *)

\* The count prop; below 5 the list still holds the 5 fixed entries
CountSamples == 4..MaxCount

\* Math.random() in milli: every 0.05 and the largest value below 1
ShuffleDraws == {50 * k : k \in 0..19} \cup {999}

\* 2 'black', 3 'acid', then 'offwhite' while types.length < count
RECURSIVE PadOffwhite(_, _)
PadOffwhite(types, count) ==
  IF Len(types) < count THEN PadOffwhite(Append(types, "offwhite"), count)
  ELSE types

InitialTypes(count) ==
  PadOffwhite(<<"black", "black", "acid", "acid", "acid">>, count)

\* Math.floor(Math.random() * (i + 1)), as a 1-based index
ShuffleIndex(u, i) == ((u * i) \div 1000) + 1

\* Mutant: the entry copied, not exchanged
Swap_Overwrite(types, i, j) == [types EXCEPT ![i] = types[j]]

\* [types[i], types[j]] = [types[j], types[i]]
Swap(types, i, j) == [types EXCEPT ![i] = types[j], ![j] = types[i]]

\* Array.from({ length: count }, (_, i) => ({ ..., type: types[i] }))
Spheres(types, count) == [k \in 1..count |-> types[k]]

InitTypes ==
  /\ variant = "sphere"
  /\ scene = "mounted"
  /\ accent = 0
  /\ triggerImpulse = 0
  /\ InitHook
  /\ body = [b \in Bodies |->
               [gen |-> 1, pos |-> SpawnPosition(variant, <<0, 0, 0>>),
                renders |-> 0]]
  /\ matColor = [b \in Bodies |-> "white"]
  /\ pointer = NewPointer
  /\ frames = 0
  /\ \E count \in CountSamples :
       probe = [kind |-> "types", count |-> count,
                types |-> InitialTypes(count),
                i |-> Len(InitialTypes(count))]
  /\ result = NoResult

\* One iteration of the shuffle loop (i counts down to 2, 1-based)
ShuffleStep ==
  /\ probe.kind = "types"
  /\ result = NoResult
  /\ probe.i > 1
  /\ \E u \in ShuffleDraws :
       probe' = [probe EXCEPT
                   !.types = Swap(probe.types, probe.i, ShuffleIndex(u, probe.i)),
                   !.i = probe.i - 1]
  /\ UNCHANGED <<variant, scene, accent, triggerImpulse, hookVars, body,
                 matColor, pointer, frames, result>>

\* The loop is over: the spheres are created from the first count entries
CreateSpheres ==
  /\ probe.kind = "types"
  /\ result = NoResult
  /\ probe.i <= 1
  /\ result' = [kind |-> "spheres", type |-> Spheres(probe.types, probe.count)]
  /\ UNCHANGED <<variant, scene, accent, triggerImpulse, hookVars, body,
                 matColor, pointer, frames, probe>>

NextTypes == ShuffleStep \/ CreateSpheres

SpecTypes == InitTypes /\ [][NextTypes]_vars

\* How many entries of a sequence equal t
Occurrences(seq, t) == Cardinality({k \in 1..Len(seq) : seq[k] = t})

\* C29: for every count >= 5 and every outcome of the shuffle there are
\* exactly count spheres, typed 'black', 'acid' or 'offwhite', of which 2 are
\* 'black', 3 'acid' and count - 5 'offwhite'; every step of the shuffle
\* keeps the entries of the list (a permutation).
C29_TypeCounts ==
  /\ (probe.kind = "types" /\ probe.count >= 5) =>
        /\ Len(probe.types) = probe.count
        /\ Occurrences(probe.types, "black") = 2
        /\ Occurrences(probe.types, "acid") = 3
        /\ Occurrences(probe.types, "offwhite") = probe.count - 5
  /\ (result.kind = "spheres" /\ probe.count >= 5) =>
        /\ Len(result.type) = probe.count
        /\ \A k \in 1..Len(result.type) :
             result.type[k] \in {"black", "acid", "offwhite"}
        /\ Occurrences(result.type, "black") = 2
        /\ Occurrences(result.type, "acid") = 3
        /\ Occurrences(result.type, "offwhite") = probe.count - 5

\* C29 witness: 6 spheres whose types the shuffle has reordered, the one
\* 'offwhite' first and a 'black' last
C29_Witness ==
  /\ result.kind = "spheres"
  /\ probe.count = 6
  /\ result.type[1] = "offwhite"
  /\ result.type[6] = "black"
  /\ result.type # InitialTypes(6)

----------------------------------------------------------------------------
(* Claims checked under SpecCursor, continued *)

====
